---- MODULE Spec2Model ----
(***************************************************************************)
(* Model of the stream watcher of go-k8sresolver (src/streamer.go):        *)
(* the reconnect loop streamWatcher.watch, the decode goroutine started by *)
(* streamWatcher.proxyEvents, the unbuffered channels connectionErrCh and  *)
(* eventsCh, the context, the endpoint client and the consumer of          *)
(* eventsCh.                                                               *)
(***************************************************************************)
EXTENDS Integers, Sequences, FiniteSets, TLC

(* ------------------------------ bounds -------------------------------- *)

\* StartChangeStream calls the endpoint client answers before the loop of the
\* model stops calling.
MaxCalls == 2

\* Returns of decoder.Decode (over all connections) after which the streams
\* deliver no further event and every read fails.
MaxDecodes == 2

(* --------------------------- data of the wire -------------------------- *)

\* streamer.go:44-49: the event types the switch of proxyEvents accepts.
added == "ADDED"
modified == "MODIFIED"
deleted == "DELETED"
failed == "ERROR"

KnownTypes == {added, modified, deleted, failed}

\* Decimal digits as strconv.Atoi reads them.
DigitValue(ch) ==
    CASE ch = "0" -> 0 [] ch = "1" -> 1 [] ch = "2" -> 2 [] ch = "3" -> 3
      [] ch = "4" -> 4 [] ch = "5" -> 5 [] ch = "6" -> 6 [] ch = "7" -> 7
      [] ch = "8" -> 8 [] ch = "9" -> 9 [] OTHER -> -1

IsDigit(ch) == DigitValue(ch) >= 0

RECURSIVE DigitsValue(_)
DigitsValue(s) ==
    IF s = <<>> THEN 0
    ELSE 10 * DigitsValue(SubSeq(s, 1, Len(s) - 1)) + DigitValue(s[Len(s)])

\* strconv.Atoi on a string given as a sequence of characters: an optional
\* sign, then at least one digit and nothing but digits.  The strings of the
\* model are far shorter than the 19 digits at which Atoi reports a range
\* error, so that outcome does not arise.
AtoiDigits(s) == IF s # <<>> /\ s[1] \in {"+", "-"} THEN Tail(s) ELSE s

AtoiOk(s) ==
    /\ AtoiDigits(s) # <<>>
    /\ \A i \in 1..Len(AtoiDigits(s)) : IsDigit(AtoiDigits(s)[i])

Atoi(s) ==
    IF s # <<>> /\ s[1] = "-" THEN 0 - DigitsValue(AtoiDigits(s))
    ELSE DigitsValue(AtoiDigits(s))

\* An event as json.Decoder hands it to proxyEvents (streamer.go:52-55): its
\* type and object.metadata.resourceVersion; the subsets are carried along
\* untouched and are not modelled.
Event(t, rv) == [Type |-> t, ResourceVersion |-> rv]

\* The documents the streams of the model deliver: every known type, an
\* unknown type, resource versions that parse (12, 7, 3) and that do not.
Documents ==
    { Event(added, <<"1", "2">>),
      Event(modified, <<"7">>),
      Event(deleted, <<"+", "3">>),
      Event(failed, <<>>),
      Event(added, <<"x">>),
      Event("not-supported", <<>>) }

\* What decoder.Decode can return with an error (streamer.go:98-113): io.EOF,
\* io.ErrUnexpectedEOF, or anything else (malformed JSON, a type mismatch, a
\* failed or aborted read).
DecodeErrors == {"EOF", "UnexpectedEOF", "other"}

\* Lines 115 and 118: errors.Wrap keeps the cause in the error it returns.
WrapDecode(e) ==
    CASE e = "EOF" -> "Unable to decode: EOF"
      [] e = "UnexpectedEOF" -> "Unable to decode: UnexpectedEOF"
      [] OTHER -> "Unable to decode: other"

\* Fault variant of AtoiError: the parse error is lost on the way to line 129.
AtoiErrorDropped == "nil"

\* Line 126: the error of strconv.Atoi; line 139: the error of the default case.
AtoiError == "strconv.Atoi: invalid syntax"
InvalidType == "Got invalid watch event type"

NoEvent == [Type |-> "nil", ResourceVersion |-> <<>>]
NoError == "nil"

\* watchResult{ep, err} as sent on eventsCh.  seq is the position, in the
\* order of decoding, of the Decode call the result comes from.
Result(ep, err, seq) == [ep |-> ep, err |-> err, seq |-> seq]
NoResult == Result(NoEvent, NoError, 0)

\* The resource versions startWatchingEndpointsChanges is seeded with.
InitialResourceVersions == {0, 5}

\* A connection is named by the index of the StartChangeStream call that opened it.
Conns == 1..MaxCalls

VARIABLES
    seedResourceVersion,      \* the lastSeenResourceVersion argument of the start
    ctxErr,                   \* ctx.Err() != nil: the context is cancelled
    watchPc,                  \* where streamWatcher.watch stands
    lastSeenResourceVersion,  \* w.lastSeenResourceVersion
    calls,                    \* the StartChangeStream calls the client has seen
    attempts,                 \* retryBackoff's attempt counter
    closes,                   \* per stream, the number of stream.Close() calls
    task,                     \* per connection, the decode goroutine
    decodes,                  \* the number of returns of decoder.Decode so far
    lastParsed,               \* the last resourceVersion a stream delivered in an
                              \* event of a known type that strconv.Atoi accepts
    received                  \* the results the consumer has taken from eventsCh

vars == <<seedResourceVersion, ctxErr, watchPc, lastSeenResourceVersion, calls, attempts, closes,
          task, decodes, lastParsed, received>>

\* A decode goroutine: where it stands (the line of streamer.go it is at),
\* the event or the error Decode returned, and the result it is sending.
Task(pc, got, err, res) == [pc |-> pc, got |-> got, err |-> err, res |-> res]
NoTask == Task("none", NoEvent, NoError, NoResult)

\* The goroutine has returned (lines 101, 107, 110, 120), which closes its
\* connectionErrCh (line 92).
Returned(t) == t.pc \in {"ret101", "ret107", "ret110", "ret120"}

\* The connection the reconnect loop is serving: the last call's.
Cur == Len(calls)

Init ==
    /\ ctxErr = FALSE
    /\ watchPc = "loop"
    /\ seedResourceVersion \in InitialResourceVersions
    /\ lastSeenResourceVersion = seedResourceVersion
    /\ calls = <<>>
    /\ attempts = 0
    /\ closes = [c \in Conns |-> 0]
    /\ task = [c \in Conns |-> NoTask]
    /\ decodes = 0
    /\ lastParsed = seedResourceVersion
    /\ received = <<>>

(* ------------------- streamWatcher.watch (lines 60-82) ------------------ *)

\* Line 62: the loop condition ctx.Err() == nil.  The model stops a live
\* loop here once the client has answered MaxCalls calls; a cancelled loop
\* always gets through.
WatchLoop ==
    /\ watchPc = "loop"
    /\ ctxErr \/ Len(calls) < MaxCalls
    /\ watchPc' = IF ctxErr THEN "done" ELSE "start"
    /\ UNCHANGED <<seedResourceVersion, ctxErr, lastSeenResourceVersion, calls,
                   attempts, closes, task, decodes, lastParsed, received>>

\* Fault variant of StreamArg: every stream is opened at the seed version.
StreamArgSeed == seedResourceVersion

\* The argument line 63 passes as resourceVersion.
StreamArg == lastSeenResourceVersion

\* Lines 63 and 73, then 87-91: StartChangeStream returns a stream, and
\* proxyEvents starts the decode goroutine on it and waits in its select.
StartChangeStreamOk ==
    /\ watchPc = "start"
    /\ calls' = Append(calls, [rv |-> StreamArg, ok |-> TRUE])
    /\ task' = [task EXCEPT ![Len(calls) + 1] =
                    Task("read", NoEvent, NoError, NoResult)]
    /\ watchPc' = "select"
    /\ UNCHANGED <<seedResourceVersion, ctxErr, lastSeenResourceVersion,
                   attempts, closes, decodes, lastParsed, received>>

\* Fault variant of StartChangeStreamFail: the loop gives up on a failure.
StartChangeStreamFailGivesUp ==
    /\ watchPc = "start"
    /\ calls' = Append(calls, [rv |-> StreamArg, ok |-> FALSE])
    /\ attempts' = attempts + 1
    /\ watchPc' = "done"
    /\ UNCHANGED <<seedResourceVersion, ctxErr, lastSeenResourceVersion,
                   closes, task, decodes, lastParsed, received>>

\* Lines 63-66: StartChangeStream returns an error; the loop asks the
\* backoff for the next duration (which counts the attempt) and sleeps.
StartChangeStreamFail ==
    /\ watchPc = "start"
    /\ calls' = Append(calls, [rv |-> StreamArg, ok |-> FALSE])
    /\ attempts' = attempts + 1
    /\ watchPc' = "sleep"
    /\ UNCHANGED <<seedResourceVersion, ctxErr, lastSeenResourceVersion,
                   closes, task, decodes, lastParsed, received>>

\* Lines 66-70: the sleep ends and the loop continues.
SleepDone ==
    /\ watchPc = "sleep"
    /\ watchPc' = "loop"
    /\ UNCHANGED <<seedResourceVersion, ctxErr, lastSeenResourceVersion, calls,
                   attempts, closes, task, decodes, lastParsed, received>>

\* Fault variant of AfterSignal: the goroutine goes on reading after its
\* send on connectionErrCh instead of returning.
AfterSignalContinues(t) == Task("read", NoEvent, NoError, NoResult)

\* What the goroutine does once its send on connectionErrCh is taken: after
\* lines 106 and 109 it returns; after line 116 it goes on to line 117.
AfterSignal(t) ==
    CASE t.pc = "send106" -> Task("ret107", NoEvent, NoError, NoResult)
      [] t.pc = "send109" -> Task("ret110", NoEvent, NoError, NoResult)
      [] OTHER -> Task("send117", NoEvent, NoError, t.res)

\* Fault variant of SelectCtxDone: the stream is not closed on cancellation.
SelectCtxDoneLeavesOpen ==
    /\ watchPc = "select"
    /\ ctxErr
    /\ watchPc' = "check"
    /\ UNCHANGED <<seedResourceVersion, ctxErr, lastSeenResourceVersion, calls,
                   attempts, closes, task, decodes, lastParsed, received>>

\* Lines 147-153 and the deferred Close of line 87: the select of
\* proxyEvents takes ctx.Done().
SelectCtxDone ==
    /\ watchPc = "select"
    /\ ctxErr
    /\ closes' = [closes EXCEPT ![Cur] = @ + 1]
    /\ watchPc' = "check"
    /\ UNCHANGED <<seedResourceVersion, ctxErr, lastSeenResourceVersion, calls,
                   attempts, task, decodes, lastParsed, received>>

\* Lines 151-152: the select takes the error the goroutine is sending on
\* connectionErrCh (lines 106, 109, 116); the channel is unbuffered, so the
\* send and the receive are one step.
SelectConnErr ==
    /\ watchPc = "select"
    /\ task[Cur].pc \in {"send106", "send109", "send116"}
    /\ task' = [task EXCEPT ![Cur] = AfterSignal(task[Cur])]
    /\ closes' = [closes EXCEPT ![Cur] = @ + 1]
    /\ watchPc' = "check"
    /\ UNCHANGED <<seedResourceVersion, ctxErr, lastSeenResourceVersion, calls,
                   attempts, decodes, lastParsed, received>>

\* Lines 92 and 151: the goroutine has returned and its deferred close of
\* connectionErrCh lets the select receive the zero value.
SelectConnClosed ==
    /\ watchPc = "select"
    /\ Returned(task[Cur])
    /\ closes' = [closes EXCEPT ![Cur] = @ + 1]
    /\ watchPc' = "check"
    /\ UNCHANGED <<seedResourceVersion, ctxErr, lastSeenResourceVersion, calls,
                   attempts, task, decodes, lastParsed, received>>

\* Fault variant of WatchCheck: the loop gives up after a broken stream.
WatchCheckGivesUp ==
    /\ watchPc = "check"
    /\ watchPc' = "done"
    /\ UNCHANGED <<seedResourceVersion, ctxErr, lastSeenResourceVersion, calls,
                   attempts, closes, task, decodes, lastParsed, received>>

\* Lines 74-81: after proxyEvents, return if the context is cancelled,
\* otherwise print the error and loop.
WatchCheck ==
    /\ watchPc = "check"
    /\ watchPc' = IF ctxErr THEN "done" ELSE "loop"
    /\ UNCHANGED <<seedResourceVersion, ctxErr, lastSeenResourceVersion, calls,
                   attempts, closes, task, decodes, lastParsed, received>>

(* -------------- the decode goroutine (lines 91-144) -------------------- *)

\* Lines 124-126: the event is of a known type and its resourceVersion is
\* one strconv.Atoi accepts.
Parses(ev) == ev.Type \in KnownTypes /\ AtoiOk(ev.ResourceVersion)

\* Line 98: decoder.Decode returns an event.
DecodeEvent(c, doc) ==
    /\ task[c].pc = "read"
    /\ decodes < MaxDecodes
    /\ decodes' = decodes + 1
    /\ lastParsed' = IF Parses(doc) THEN Atoi(doc.ResourceVersion) ELSE lastParsed
    /\ task' = [task EXCEPT ![c] = Task("decoded", doc, NoError, NoResult)]
    /\ UNCHANGED <<seedResourceVersion, ctxErr, watchPc, lastSeenResourceVersion,
                   calls, attempts, closes, received>>

\* Line 98: decoder.Decode returns an error.
DecodeError(c, e) ==
    /\ task[c].pc = "read"
    /\ decodes' = decodes + 1
    /\ task' = [task EXCEPT ![c] = Task("failed", NoEvent, e, NoResult)]
    /\ UNCHANGED <<seedResourceVersion, ctxErr, watchPc, lastSeenResourceVersion,
                   calls, attempts, closes, lastParsed, received>>

\* Fault variant of SignalLine: the default path sends on eventsCh first.
SignalLineSendsFirst(e) ==
    CASE e = "EOF" -> "send106"
      [] e = "UnexpectedEOF" -> "send109"
      [] OTHER -> "send117"

\* Fault variant of SignalLine: EOF and unexpected EOF take the default path.
SignalLineDefault(e) == "send116"

\* Where lines 103-116 send the error on connectionErrCh.
SignalLine(e) ==
    CASE e = "EOF" -> "send106"
      [] e = "UnexpectedEOF" -> "send109"
      [] OTHER -> "send116"

\* Lines 99-116: the context is cancelled and the goroutine returns, or it
\* goes to send the wrapped error on connectionErrCh.  The result of line
\* 117 is built from the error here.
ClassifyError(c) ==
    /\ task[c].pc = "failed"
    /\ task' = [task EXCEPT ![c] =
                    IF ctxErr
                    THEN Task("ret101", NoEvent, NoError, NoResult)
                    ELSE Task(SignalLine(@.err), NoEvent, @.err,
                              Result(NoEvent, WrapDecode(@.err), decodes))]
    /\ UNCHANGED <<seedResourceVersion, ctxErr, watchPc, lastSeenResourceVersion,
                   calls, attempts, closes, decodes, lastParsed, received>>

\* Fault variant of AssignedVersion: the version only ever grows.
AssignedVersionMax(got) ==
    IF Atoi(got.ResourceVersion) > lastSeenResourceVersion
    THEN Atoi(got.ResourceVersion)
    ELSE lastSeenResourceVersion

\* Fault variant of AssignedVersion: the parsed value is dropped.
AssignedVersionKept(got) == lastSeenResourceVersion

\* Lines 125 and 133: the value assigned to w.lastSeenResourceVersion.
AssignedVersion(got) == Atoi(got.ResourceVersion)

\* Fault variant of ProcessEvent: the value strconv.Atoi returns is assigned
\* before its error is looked at, and Atoi returns 0 with an error.
ProcessEventAssignsFirst(c) ==
    /\ task[c].pc = "decoded"
    /\ LET got == task[c].got
           seq == decodes
       IN IF got.Type \in KnownTypes
          THEN IF AtoiOk(got.ResourceVersion)
               THEN /\ lastSeenResourceVersion' = AssignedVersion(got)
                    /\ task' = [task EXCEPT ![c] =
                           Task("send134", NoEvent, NoError,
                                Result(got, NoError, seq))]
               ELSE /\ lastSeenResourceVersion' = 0
                    /\ task' = [task EXCEPT ![c] =
                           Task("send127", NoEvent, NoError,
                                Result(got, AtoiError, seq))]
          ELSE /\ UNCHANGED lastSeenResourceVersion
               /\ task' = [task EXCEPT ![c] =
                      Task("send138", NoEvent, NoError,
                           Result(NoEvent, InvalidType, seq))]
    /\ UNCHANGED <<seedResourceVersion, ctxErr, watchPc, calls, attempts,
                   closes, decodes, lastParsed, received>>

\* Lines 123-141: the switch on the event's type.  A known type whose
\* resourceVersion parses sets lastSeenResourceVersion and goes to send the
\* event (134); one that does not parse goes to send the event with the
\* parse error (127); any other type goes to send an error alone (138).
ProcessEvent(c) ==
    /\ task[c].pc = "decoded"
    /\ LET got == task[c].got
           seq == decodes
       IN IF got.Type \in KnownTypes
          THEN IF AtoiOk(got.ResourceVersion)
               THEN /\ lastSeenResourceVersion' = AssignedVersion(got)
                    /\ task' = [task EXCEPT ![c] =
                           Task("send134", NoEvent, NoError,
                                Result(got, NoError, seq))]
               ELSE /\ UNCHANGED lastSeenResourceVersion
                    /\ task' = [task EXCEPT ![c] =
                           Task("send127", NoEvent, NoError,
                                Result(got, AtoiError, seq))]
          ELSE /\ UNCHANGED lastSeenResourceVersion
               /\ task' = [task EXCEPT ![c] =
                      Task("send138", NoEvent, NoError,
                           Result(NoEvent, InvalidType, seq))]
    /\ UNCHANGED <<seedResourceVersion, ctxErr, watchPc, calls, attempts,
                   closes, decodes, lastParsed, received>>

\* The lines at which the goroutine sends on eventsCh.
SendLines == {"send117", "send127", "send134", "send138"}

\* Fault variant of AfterSend: the goroutine returns after every send.
AfterSendReturns(t) == Task("ret120", NoEvent, NoError, NoResult)

\* Where the goroutine goes once its send on eventsCh is taken: line 120
\* returns, the others go round the loop to the next Decode.
AfterSend(t) ==
    IF t.pc = "send117"
    THEN Task("ret120", NoEvent, NoError, NoResult)
    ELSE Task("read", NoEvent, NoError, NoResult)

(* ------------------------- the environment ----------------------------- *)

\* The consumer of eventsCh receives from a goroutine blocked in a send
\* (lines 117, 127, 134, 138); eventsCh is unbuffered (streamer_test.go:82),
\* so the send and the receive are one step.
Receive(c) ==
    /\ task[c].pc \in SendLines
    /\ received' = Append(received, task[c].res)
    /\ task' = [task EXCEPT ![c] = AfterSend(task[c])]
    /\ UNCHANGED <<seedResourceVersion, ctxErr, watchPc, lastSeenResourceVersion,
                   calls, attempts, closes, decodes, lastParsed>>

\* The owner cancels the context (streamer_test.go:79-80).
Cancel ==
    /\ ~ctxErr
    /\ ctxErr' = TRUE
    /\ UNCHANGED <<seedResourceVersion, watchPc, lastSeenResourceVersion, calls,
                   attempts, closes, task, decodes, lastParsed, received>>

Watch ==
    \/ WatchLoop
    \/ StartChangeStreamOk
    \/ StartChangeStreamFail
    \/ SleepDone
    \/ SelectCtxDone
    \/ SelectConnErr
    \/ SelectConnClosed
    \/ WatchCheck

Decoder(c) ==
    \/ \E doc \in Documents : DecodeEvent(c, doc)
    \/ \E e \in DecodeErrors : DecodeError(c, e)
    \/ ClassifyError(c)
    \/ ProcessEvent(c)

Next ==
    \/ Watch
    \/ \E c \in Conns : Decoder(c)
    \/ \E c \in Conns : Receive(c)
    \/ Cancel

Spec == Init /\ [][Next]_vars

\* The Go scheduler runs every goroutine that can take a step, and a read on
\* a cancelled or closed connection returns; the consumer and the owner of
\* the context are under no obligation.
FairSpec ==
    /\ Spec
    /\ WF_vars(Watch)
    /\ \A c \in Conns : WF_vars(Decoder(c))


(* ------------------- the resolver behind eventsCh ---------------------- *)

\* The resolver's stored endpoint object; an object is known here by the
\* event that carried it.
NoObject == NoEvent

\* The resolver applies one change result to its stored object: a result
\* with an error changes nothing; Added and Modified replace the object,
\* Deleted clears it, an Error event changes nothing.
ApplyResult(stored, r) ==
    IF r.err # NoError THEN stored
    ELSE CASE r.ep.Type \in {added, modified} -> r.ep
           [] r.ep.Type = deleted -> NoObject
           [] OTHER -> stored

\* The stored object after the first n results received.
RECURSIVE StoredAfter(_)
StoredAfter(n) ==
    IF n = 0 THEN NoObject ELSE ApplyResult(StoredAfter(n - 1), received[n])

\* The address set published for a stored object: empty without an object,
\* otherwise the addresses of that object (which the events carry untouched).
ResolvedAddressSet(obj) == IF obj = NoObject THEN <<>> ELSE <<obj>>

(* ------------------------------ properties ----------------------------- *)

StepOf(c) == task'[c] # task[c]

Called == Len(calls') = Len(calls) + 1

ReceivedSeqs == {received[i].seq : i \in 1..Len(received)}

\* The goroutine of a connection has handed a decode failure to the
\* reconnect loop over connectionErrCh.
Signalled(t) == t.pc \in {"ret107", "ret110", "send117", "ret120"}

NumSignalled == Cardinality({c \in Conns : Signalled(task[c])})

NumReceived(err) == Cardinality({i \in 1..Len(received) : received[i].err = err})

AllCallsOk == \A i \in 1..Len(calls) : calls[i].ok

\* C1: every StartChangeStream call is made with the resourceVersion of the
\* most recent event a stream delivered whose resourceVersion parses, or
\* with the seed if there was none yet.
ResumptionPosition ==
    [][Called => calls'[Len(calls')].rv = lastParsed]_vars

\* C1 witness: a reconnect after a broken stream, made at the version of the
\* second of two parsed events, which is neither the seed nor the first.
ResumptionWitness ==
    /\ ~ctxErr
    /\ Len(calls) = 2
    /\ calls[1].ok
    /\ Signalled(task[1])
    /\ calls[2].rv = 7
    /\ \E i \in 1..Len(received) : received[i].ep.ResourceVersion = <<"1", "2">>

\* C2: while every StartChangeStream succeeds and the context is live, the
\* calls made are one more than the failures handed to the reconnect loop
\* while it waits on a stream, and as many while it is on its way to the
\* next call; every failure that is neither EOF nor unexpected EOF yields
\* one result, an error without an event; events of any kind add no call.
ReconnectCount ==
    (~ctxErr /\ AllCallsOk) =>
        /\ \/ watchPc = "select" /\ Len(calls) = NumSignalled + 1
           \/ watchPc \in {"check", "loop", "start"} /\ Len(calls) = NumSignalled
        /\ \A c \in Conns : task[c].pc = "send117" =>
              /\ task[c].res.ep = NoEvent
              /\ task[c].res.err = WrapDecode("other")
              /\ task[c].res.seq \notin ReceivedSeqs
        /\ NumReceived(WrapDecode("other"))
              = Cardinality({c \in Conns : task[c].pc = "ret120"})

\* C2 witness: the first stream broke on malformed JSON, its one error
\* result was received, and the second stream is open and has delivered an
\* event without a further call.
ReconnectWitness ==
    /\ ~ctxErr
    /\ AllCallsOk
    /\ Len(calls) = 2
    /\ watchPc = "select"
    /\ task[1].pc = "ret120"
    /\ task[2].pc = "read"
    /\ Len(received) = 2
    /\ received[1] = Result(NoEvent, WrapDecode("other"), 1)
    /\ received[2].err = InvalidType

\* C3: an event of an unknown type makes the goroutine send one result, an
\* error without an event, leaving lastSeenResourceVersion, the calls and
\* the reconnect loop as they are, and then read the same stream again.
UnknownEventType ==
    [][\A c \in Conns :
         /\ (task[c].pc = "decoded" /\ task[c].got.Type \notin KnownTypes /\ StepOf(c)) =>
               /\ task'[c].pc = "send138"
               /\ task'[c].res.ep = NoEvent
               /\ task'[c].res.err = InvalidType
               /\ task'[c].res.seq \notin ReceivedSeqs
               /\ UNCHANGED <<lastSeenResourceVersion, calls, watchPc, received>>
         /\ (task[c].pc = "send138" /\ StepOf(c)) =>
               /\ received' = Append(received, task[c].res)
               /\ task'[c].pc = "read"
               /\ UNCHANGED <<lastSeenResourceVersion, calls, watchPc>>
    ]_vars

\* C3 witness: the error of an unknown type was received and the goroutine
\* is reading the first stream again.
UnknownTypeWitness ==
    /\ Len(calls) = 1
    /\ task[1].pc = "read"
    /\ Len(received) = 1
    /\ received[1] = Result(NoEvent, InvalidType, 1)
    /\ lastSeenResourceVersion = seedResourceVersion

\* C4: an event of a known type whose resourceVersion parses makes the
\* goroutine send one result, that event without an error, and
\* lastSeenResourceVersion is the parsed value when the result is taken.
ValidEventForwarding ==
    [][\A c \in Conns :
         /\ (task[c].pc = "decoded" /\ Parses(task[c].got) /\ StepOf(c)) =>
               /\ task'[c].pc = "send134"
               /\ task'[c].res.ep = task[c].got
               /\ task'[c].res.err = NoError
               /\ task'[c].res.seq \notin ReceivedSeqs
               /\ received' = received
         /\ (task[c].pc = "send134" /\ StepOf(c)) =>
               /\ received' = Append(received, task[c].res)
               /\ lastSeenResourceVersion = Atoi(task[c].res.ep.ResourceVersion)
               /\ task'[c].pc = "read"
    ]_vars

\* C4 witness: two events were forwarded, the later one with the lower
\* resourceVersion, and lastSeenResourceVersion is that of the later one.
ValidEventWitness ==
    /\ Len(received) = 2
    /\ received[1] = Result(Event(added, <<"1", "2">>), NoError, 1)
    /\ received[2] = Result(Event(deleted, <<"+", "3">>), NoError, 2)
    /\ lastSeenResourceVersion = 3


DecodeFailures == {WrapDecode(e) : e \in DecodeErrors}

NumDecodeFailuresReceived ==
    Cardinality({i \in 1..Len(received) : received[i].err \in DecodeFailures})

\* C5, as claimed: when the reconnect loop opens the next stream with the
\* context live, every decode failure that ended a stream has put one error
\* result on the output queue.
StreamEndReportedBeforeReconnect ==
    [][(Called /\ ~ctxErr) => NumDecodeFailuresReceived = NumSignalled]_vars

\* C5, amended: with the context live, EOF and unexpected EOF are handed to
\* the reconnect loop alone and put nothing on the output queue; any other
\* decode failure is handed to the reconnect loop first and then sent once
\* on the output queue, an error without an event, after which the
\* goroutine returns.
StreamEndReport ==
    [][\A c \in Conns :
         /\ (task[c].pc = "failed" /\ ~ctxErr /\ StepOf(c)) =>
               /\ task'[c].pc = CASE task[c].err = "EOF" -> "send106"
                                  [] task[c].err = "UnexpectedEOF" -> "send109"
                                  [] OTHER -> "send116"
               /\ UNCHANGED <<received, watchPc>>
         /\ (task[c].pc \in {"send106", "send109"} /\ StepOf(c)) =>
               /\ Returned(task'[c])
               /\ watchPc = "select" /\ watchPc' = "check"
               /\ received' = received
         /\ (task[c].pc = "send116" /\ StepOf(c)) =>
               /\ task'[c].pc = "send117"
               /\ task'[c].res.ep = NoEvent
               /\ task'[c].res.err = WrapDecode("other")
               /\ task'[c].res.seq \notin ReceivedSeqs
               /\ watchPc = "select" /\ watchPc' = "check"
               /\ received' = received
         /\ (task[c].pc = "send117" /\ StepOf(c)) =>
               /\ received' = Append(received, task[c].res)
               /\ Returned(task'[c])
    ]_vars

\* C5 witness: the first stream ended on EOF and put nothing on the queue;
\* the second broke on malformed JSON, the loop has been told, and the
\* error result is still to be sent.
StreamEndWitness ==
    /\ ~ctxErr
    /\ Len(calls) = 2
    /\ task[1].pc = "ret107"
    /\ task[2].pc = "send117"
    /\ watchPc = "loop"
    /\ received = <<>>

\* C6, as claimed: the consumer receives the results in the order in which
\* the Decode calls they come from returned.
DeliveryOrder ==
    \A i, j \in 1..Len(received) :
        i < j => received[i].seq < received[j].seq

\* C7, as claimed: once the context is cancelled nothing more is put on the
\* output queue.
NoEmissionAfterCancel ==
    [][ctxErr => received' = received]_vars

AllTerminated ==
    /\ watchPc = "done"
    /\ \A c \in Conns : task[c].pc = "none" \/ Returned(task[c])

NoReadPending ==
    \A c \in Conns : task[c].pc \notin {"read", "decoded", "failed"}

\* C8, as claimed: once the context is cancelled and no read is pending any
\* more, the reconnect loop and every decode goroutine terminate, whatever
\* the consumer does.
CancelReleasesAll ==
    (ctxErr /\ NoReadPending) ~> AllTerminated

\* C9: a failed StartChangeStream puts nothing on the output queue and
\* leaves lastSeenResourceVersion and the goroutines alone; the loop sleeps
\* and, unless cancelled, calls again with the same resourceVersion; it
\* ends only by cancellation, and while every call has failed the output
\* queue has received nothing.
ConnectionFailuresAbsorbed ==
    [][/\ (Called /\ ~calls'[Len(calls')].ok) =>
             /\ watchPc' = "sleep"
             /\ UNCHANGED <<received, lastSeenResourceVersion, task>>
       /\ (Called /\ Len(calls) >= 1 /\ ~calls[Len(calls)].ok) =>
             calls'[Len(calls')].rv = calls[Len(calls)].rv
       /\ (watchPc = "sleep" /\ watchPc' # "sleep") => watchPc' = "loop"
       /\ (watchPc = "loop" /\ ~ctxErr /\ watchPc' # "loop") => watchPc' = "start"
       /\ watchPc' = "done" => ctxErr'
       /\ (\A i \in 1..Len(calls') : ~calls'[i].ok) => received' = <<>>
    ]_vars

\* C9 witness: two calls in a row failed, the second made with the version
\* of the first, nothing was received and the loop sleeps once more.
ConnectionFailureWitness ==
    /\ ~ctxErr
    /\ Len(calls) = 2
    /\ ~calls[1].ok /\ ~calls[2].ok
    /\ calls[2].rv = calls[1].rv
    /\ attempts = 2
    /\ watchPc = "sleep"
    /\ received = <<>>

\* C10, as claimed: no assignment lowers lastSeenResourceVersion.
VersionNeverDecreases ==
    [][lastSeenResourceVersion' >= lastSeenResourceVersion]_vars

\* C10, amended: lastSeenResourceVersion changes only in the step that
\* handles an event of a known type whose resourceVersion parses, and that
\* step sets it to the parsed value, higher or lower; an event that does
\* not parse or whose type is unknown leaves it as it is.
VersionIsLastParsed ==
    [][/\ \A c \in Conns :
            (task[c].pc = "decoded" /\ StepOf(c)) =>
                lastSeenResourceVersion' =
                    IF Parses(task[c].got)
                    THEN Atoi(task[c].got.ResourceVersion)
                    ELSE lastSeenResourceVersion
       /\ lastSeenResourceVersion' # lastSeenResourceVersion =>
            \E c \in Conns : task[c].pc = "decoded" /\ StepOf(c)
    ]_vars

\* C10 witness: an event with version 12 was forwarded, then one with
\* version 7 was handled, and lastSeenResourceVersion went down to 7.
VersionWitness ==
    /\ Len(received) = 1
    /\ received[1].ep = Event(added, <<"1", "2">>)
    /\ received[1].err = NoError
    /\ lastSeenResourceVersion = 7
    /\ \E c \in Conns : task[c].pc = "send134"


\* The results the goroutines hold in a send on eventsCh.
Pending == {task[c].res : c \in {d \in Conns : task[d].pc \in SendLines}}

Received == {received[i] : i \in 1..Len(received)}

\* C11, as claimed: every result sent on the output queue has an event and
\* no error, or an error and no event.
ExactlyOneField ==
    \A r \in Pending \cup Received :
        (r.ep # NoEvent) # (r.err # NoError)

\* C13: an event of a known type whose resourceVersion does not parse makes
\* the goroutine send one result carrying the parse error, leaving
\* lastSeenResourceVersion, the calls and the reconnect loop as they are,
\* and then read the same stream again.
ParseFailureIsLocal ==
    [][\A c \in Conns :
         /\ (/\ task[c].pc = "decoded"
             /\ task[c].got.Type \in {"ADDED", "MODIFIED", "DELETED", "ERROR"}
             /\ task[c].got.ResourceVersion \in {<<>>, <<"x">>}
             /\ StepOf(c)) =>
               /\ task'[c].pc = "send127"
               /\ task'[c].res.err = AtoiError
               /\ task'[c].res.seq \notin ReceivedSeqs
               /\ UNCHANGED <<lastSeenResourceVersion, calls, watchPc, received>>
         /\ (task[c].pc = "send127" /\ StepOf(c)) =>
               /\ received' = Append(received, task[c].res)
               /\ task'[c].pc = "read"
               /\ UNCHANGED <<lastSeenResourceVersion, calls, watchPc>>
    ]_vars

\* C13 witness: after an event that set the version to 12, the parse error
\* of an ERROR event without resourceVersion was received; the version is
\* still 12 and the goroutine is reading the first stream again.
ParseFailureWitness ==
    /\ Len(calls) = 1
    /\ watchPc = "select"
    /\ task[1].pc = "read"
    /\ Len(received) = 2
    /\ received[2].err = AtoiError
    /\ received[2].ep = Event(failed, <<>>)
    /\ lastSeenResourceVersion = 12

Alive(t) == t.pc # "none" /\ ~Returned(t)

\* C14, as claimed: at most one decode goroutine is alive at any moment.
SingleProducer ==
    Cardinality({c \in Conns : Alive(task[c])}) <= 1


\* The result comes from a decode failure, an unknown type or a failed
\* parse of the resourceVersion.
FromErrorCase(r) ==
    \/ r.ep = NoEvent
    \/ r.ep.Type \notin {"ADDED", "MODIFIED", "DELETED", "ERROR"}
    \/ r.ep.ResourceVersion \in {<<>>, <<"x">>}

\* C12: a result of a decode failure, an unknown type or a failed parse
\* reaches the resolver with an error and leaves its stored object and its
\* published address set as they were; these change only on a result
\* without error carrying an Added, Modified or Deleted event.
ErrorsKeepResolverState ==
    \A i \in 1..Len(received) :
        /\ FromErrorCase(received[i]) =>
              /\ received[i].err # NoError
              /\ StoredAfter(i) = StoredAfter(i - 1)
              /\ ResolvedAddressSet(StoredAfter(i))
                    = ResolvedAddressSet(StoredAfter(i - 1))
        /\ StoredAfter(i) # StoredAfter(i - 1) =>
              /\ received[i].err = NoError
              /\ received[i].ep.Type \in {"ADDED", "MODIFIED", "DELETED"}
              /\ ~FromErrorCase(received[i])

\* C12 witness: an Added event set the stored object, then the result of a
\* failed parse (which carries an event too) was received and the object
\* and the address set stayed.
ErrorsKeepWitness ==
    /\ Len(received) = 2
    /\ received[1] = Result(Event(added, <<"1", "2">>), NoError, 1)
    /\ received[2].ep = Event(added, <<"x">>)
    /\ StoredAfter(2) = Event(added, <<"1", "2">>)
    /\ ResolvedAddressSet(StoredAfter(2)) = <<Event(added, <<"1", "2">>)>>


\* The goroutine can still reach the assignment of line 133.
CanStillWrite(t) == t.pc \in {"read", "decoded", "send127", "send134", "send138"}

NumWriters == Cardinality({c \in Conns : CanStillWrite(task[c])})

\* C15: lastSeenResourceVersion is written only by a decode goroutine
\* handling an event, at most one goroutine can still write it at any
\* moment, and when the reconnect loop reads it for StartChangeStream, or
\* stands between two streams, no goroutine can still write it.
NoVersionRace ==
    [][/\ lastSeenResourceVersion' # lastSeenResourceVersion =>
             /\ \E c \in Conns : task[c].pc = "decoded" /\ StepOf(c)
             /\ watchPc \notin {"loop", "start", "sleep"}
       /\ Called => NumWriters = 0
       /\ watchPc' \in {"loop", "start", "sleep"} => NumWriters' = 0
       /\ NumWriters' <= 1
    ]_vars

\* C15 witness: the goroutine of the first stream set the version to 12 and
\* then failed; the loop read 12 for the second stream while that goroutine
\* is still alive in its last send, and the goroutine of the second stream
\* is the only one that can write.
NoVersionRaceWitness ==
    /\ ~ctxErr
    /\ Len(calls) = 2
    /\ calls[1].rv = 5
    /\ calls[2].rv = 12
    /\ task[1].pc = "send117"
    /\ task[2].pc = "read"
    /\ lastSeenResourceVersion = 12

\* C16, as claimed: whenever a connection is established and the decode
\* phase entered, the attempt counter of the backoff is back at its
\* initial value.
BackoffReset ==
    watchPc = "select" => attempts = 0

\* C17, as claimed: every StartChangeStream call after the first comes
\* after a backoff wait of its own.
BackoffBeforeReconnect ==
    Len(calls) <= attempts + 1

\* C18: every stream a successful StartChangeStream returned is closed once,
\* when its decode phase returns; only the stream the loop is waiting on in
\* proxyEvents is open, and none once the loop has moved on or ended.
ConnectionOwnership ==
    \A c \in Conns :
        closes[c] =
            IF /\ c <= Len(calls)
               /\ calls[c].ok
               /\ ~(c = Cur /\ watchPc = "select")
            THEN 1 ELSE 0

\* C18 witness: two streams were opened one after the other, the first
\* closed on a decode failure, the second on cancellation while its
\* goroutine was in a send, and the loop has ended.
ConnectionOwnershipWitness ==
    /\ watchPc = "done"
    /\ Len(calls) = 2
    /\ calls[1].ok /\ calls[2].ok
    /\ closes[1] = 1 /\ closes[2] = 1
    /\ task[2].pc = "send134"


\* The loop is back at line 62 with every call of the model used up.
OutOfCalls == watchPc = "loop" /\ Len(calls) = MaxCalls

\* StartChangeStream has just returned: the loop sleeps after a failed call,
\* or waits on a new stream whose goroutine is in its first Decode.
JustCalled ==
    \/ watchPc = "sleep"
    \/ watchPc = "select" /\ task[Cur].pc = "read"

\* C19: when Decode fails on the stream the loop is waiting on and the
\* context is live, the loop goes on to call StartChangeStream again (or
\* the context is cancelled), whether or not the consumer ever receives.
ReconnectWithoutConsumer ==
    (watchPc = "select" /\ task[Cur].pc = "failed" /\ ~ctxErr)
        ~> (ctxErr \/ OutOfCalls \/ JustCalled)

\* C19 witness: the first stream broke on malformed JSON, the consumer has
\* received nothing, the error result is still held by the old goroutine,
\* and the second stream is open.
ReconnectWithoutConsumerWitness ==
    /\ ~ctxErr
    /\ received = <<>>
    /\ Len(calls) = 2
    /\ calls[1].ok /\ calls[2].ok
    /\ task[1].pc = "send117"
    /\ watchPc = "select"

====
